---- MODULE Spec2Model ----
(***************************************************************************)
(* Session orchestration engine of the empathic-conversations chat task:   *)
(* make_world, MultiAgentDialogWorld.parley / episode_done / shutdown of   *)
(* both chat_world variants, and the RemoteAgent websocket bridge.         *)
(***************************************************************************)
EXTENDS Integers, Sequences, FiniteSets, TLC

VARIABLES
    variant,          \* "new": empathic_conversations, "old": empathic-conversations
    nLocal,           \* number of human agents handed to make_world
    pc,               \* position of the driver / controller
    agents,           \* self.agents: sequence of participant handles
    max_turns,        \* self.max_turns
    min_turns,        \* self.min_turns (new variant only)
    send_task_data,   \* self.send_task_data
    current_turns,    \* self.current_turns
    episodeDone,      \* self.episodeDone
    acts,             \* self.acts, the last-acts buffer
    idx,              \* loop index of parley's for loop (1-based)
    agents_said_bye,  \* parley's local list of goodbye matches
    bridge,           \* per participant: RemoteAgent.observation and its socket
    roundLog,         \* calls made by the current parley, in order
    tasks,            \* state of the shutdown task of each participant
    retries,          \* number of times the except block ran after a completed act
    everReplyDone,    \* history: some reply carried episode_done = True
    everAllBye,       \* history: some completed round had only goodbye utterances
    everEnded,        \* history: some parley entered its closing branch
    links,            \* rows of conversation_agent: agent_unit_id per participant
    answer,           \* what the last call of episode_done() returned:
                      \* "none" (not called), "True" or "False"
    probe,            \* characters of the text handed to the goodbye pattern
    matched           \* result of re.match on probe: "none" (not applied),
                      \* "match" or "no_match"

vars == <<variant, nLocal, pc, agents, max_turns, min_turns, send_task_data,
          current_turns, episodeDone, acts, idx, agents_said_bye, bridge,
          roundLog, tasks, retries, everReplyDone, everAllBye, everEnded, links,
          answer, probe, matched>>

(***************************************************************************)
(* Bounds of the model.                                                    *)
(***************************************************************************)
MaxLocal == 3
MaxTurnsCfg == 2
MinTurnsCfg == 2
MaxRetries == 1
MaxRounds == 2
MaxTextLen == 4

(***************************************************************************)
(* Texts.  A text is a string; Chars gives its characters, on which the    *)
(* goodbye pattern is matched.                                             *)
(***************************************************************************)
Utterances == {"hi", " Bye! "}

Placeholder == "Nothing to reply to yet"

Chars(t) ==
    CASE t = "hi"      -> <<"h", "i">>
      [] t = " Bye! "  -> <<" ", "B", "y", "e", "!", " ">>
      [] t = "bye"     -> <<"b", "y", "e">>
      [] t = "Bye!"    -> <<"B", "y", "e", "!">>
      [] t = "bye."    -> <<"b", "y", "e", ".">>
      [] t = "  BYE  " -> <<" ", " ", "B", "Y", "E", " ", " ">>
      [] t = "bye bye" -> <<"b", "y", "e", " ", "b", "y", "e">>
      [] t = "goodbye for now" ->
            <<"g", "o", "o", "d", "b", "y", "e", " ", "f", "o", "r", " ", "n",
              "o", "w">>
      [] t = Placeholder ->
            <<"N", "o", "t", "h", "i", "n", "g", " ", "t", "o", " ", "r", "e",
              "p", "l", "y", " ", "t", "o", " ", "y", "e", "t">>
      [] OTHER -> <<>>

Whitespace == {" ", "\t", "\n", "\r"}

FoldCase(c) ==
    CASE c = "B" -> "b"
      [] c = "Y" -> "y"
      [] c = "E" -> "e"
      [] OTHER -> c

RECURSIVE SkipWhile(_, _, _)
SkipWhile(s, i, class) ==
    IF i <= Len(s) /\ s[i] \in class THEN SkipWhile(s, i + 1, class) ELSE i

\* the pattern without its closing anchor: r'^\s*(?i:bye)[.!]*\s*'
MatchBye_Unanchored(s) ==
    LET i1 == SkipWhile(s, 1, Whitespace)
    IN  /\ i1 + 2 <= Len(s)
        /\ FoldCase(s[i1]) = "b"
        /\ FoldCase(s[i1 + 1]) = "y"
        /\ FoldCase(s[i1 + 2]) = "e"

\* re.match(r'^\s*(?i:bye)[.!]*\s*$', text) is not None
MatchBye(s) ==
    LET i1 == SkipWhile(s, 1, Whitespace)
        i2 == i1 + 3
        i3 == SkipWhile(s, i2, {".", "!"})
        i4 == SkipWhile(s, i3, Whitespace)
    IN  /\ i1 + 2 <= Len(s)
        /\ FoldCase(s[i1]) = "b"
        /\ FoldCase(s[i1 + 1]) = "y"
        /\ FoldCase(s[i1 + 2]) = "e"
        /\ i4 = Len(s) + 1

SaidBye(t) == MatchBye(Chars(t))

(***************************************************************************)
(* Participants and records.                                               *)
(***************************************************************************)
Local(u) == [kind |-> "local", unit |-> u]
Bot == [kind |-> "remote", unit |-> 0]

IsRemote(a) == a.kind = "remote"

N == Len(agents)
Ix == 1..N

NoData == [last_acting_agent |-> 0, current_dialogue_turn |-> 0, utterance_count |-> 0]

\* acts = [None] * len(agents)
NoAct == [text |-> "None", episode_done |-> FALSE, replyTo |-> "none", seq |-> 0,
          task_data |-> NoData]

\* What a human participant's act may return: either utterance, or an
\* utterance with the episode-done flag set (parley reads the flag and the
\* text independently of each other, so one flagged text is drawn).
LocalReplies ==
    {[text |-> t, episode_done |-> FALSE, replyTo |-> "none", seq |-> 0,
      task_data |-> NoData] : t \in Utterances}
    \cup {[text |-> "hi", episode_done |-> TRUE, replyTo |-> "none", seq |-> 0,
            task_data |-> NoData]}

Ev(e, a, b) == [e |-> e, a |-> a, b |-> b]

Max(a, b) == IF a >= b THEN a ELSE b

(***************************************************************************)
(* RemoteAgent: the bridge to the remote participant.  observed lists the  *)
(* texts handed to observe, sent the texts written to the socket, recv     *)
(* counts the messages read from it; failed tells that a send or a receive *)
(* on the socket raised.                                                   *)
(***************************************************************************)
NoBridge == [observation |-> "None", connected |-> FALSE, observed |-> <<>>,
             sent |-> <<>>, recv |-> 0, failed |-> FALSE]

\* RemoteAgent.__init__ after ws_start connected
FreshBridge == [observation |-> "None", connected |-> TRUE, observed |-> <<>>,
                sent |-> <<>>, recv |-> 0, failed |-> FALSE]

\* Agent.observe
BridgeObserve(b, text) ==
    [b EXCEPT !.observation = text, !.observed = Append(@, text)]

\* ws_send: writes only when the socket reports itself connected
WsSend(b, text) ==
    IF b.connected THEN [b EXCEPT !.sent = Append(@, text)] ELSE b

\* ws_recv: reads one message when the socket reports itself connected
WsRecv(b) ==
    IF b.connected THEN [b EXCEPT !.recv = @ + 1] ELSE b

\* RemoteAgent.act() reading the socket twice
BridgeAct_TwoReads(b) ==
    IF b.observation = "None" THEN b
    ELSE WsRecv(WsRecv(WsSend(b, b.observation)))

\* The bridge after RemoteAgent.act() with a working transport.
BridgeAct(b) ==
    IF b.observation = "None" THEN b ELSE WsRecv(WsSend(b, b.observation))

\* The Turn Record RemoteAgent.act() returns when the message it reads from
\* the socket has text r; seq is the position of that message among the
\* messages read from the socket.
BridgeReply(b, r) ==
    IF b.observation = "None"
    THEN [text |-> Placeholder, episode_done |-> FALSE, replyTo |-> "none",
          seq |-> 0, task_data |-> NoData]
    ELSE [text |-> r, episode_done |-> FALSE, replyTo |-> b.observation,
          seq |-> b.recv + 1, task_data |-> NoData]

\* The socket after a send or a receive on it raised: websocket marks it
\* closed for some errors and leaves it reporting connected for others;
\* ws_send and ws_recv do not close it.
AfterError(b) ==
    {[b EXCEPT !.failed = TRUE, !.connected = c] : c \in {b.connected, FALSE}}

(***************************************************************************)
(* Initial state: make_world is about to be called with nLocal human       *)
(* agents under some configuration of the task.  max_turns and min_turns   *)
(* are read from the configuration unvalidated, so every small value is    *)
(* drawn, 0 and max_turns < min_turns included; the old variant has no     *)
(* min_turns.                                                              *)
(***************************************************************************)
Init ==
    /\ variant \in {"new", "old"}
    /\ nLocal \in 0..MaxLocal
    /\ max_turns \in 0..MaxTurnsCfg
    /\ min_turns \in (IF variant = "new" THEN 0..MinTurnsCfg ELSE {0})
    /\ send_task_data \in BOOLEAN
    /\ pc = "start"
    /\ agents = <<>>
    /\ current_turns = 0
    /\ episodeDone = FALSE
    /\ acts = <<>>
    /\ idx = 0
    /\ agents_said_bye = <<>>
    /\ bridge = <<>>
    /\ roundLog = <<>>
    /\ tasks = <<>>
    /\ retries = 0
    /\ everReplyDone = FALSE
    /\ everAllBye = FALSE
    /\ everEnded = FALSE
    /\ links = <<>>
    /\ answer = "none"
    /\ probe = <<>>
    /\ matched = "none"

(***************************************************************************)
(* make_world and MultiAgentDialogWorld.__init__                           *)
(***************************************************************************)
\* make_world (new): observe dummy, act, observe begin
HandshakeNew ==
    BridgeObserve(BridgeAct(BridgeObserve(FreshBridge, "dummy")), "begin")

\* make_world (old) without the act that follows observe begin
HandshakeOld_NoSecondAct ==
    BridgeObserve(BridgeAct(BridgeObserve(FreshBridge, "dummy")), "begin")

\* make_world (old): observe dummy, act, observe begin, act
HandshakeOld ==
    BridgeAct(BridgeObserve(BridgeAct(BridgeObserve(FreshBridge, "dummy")), "begin"))

Handshake == IF variant = "new" THEN HandshakeNew ELSE HandshakeOld

\* pc.MEPHISTO_INSTANCE, a tag of the deployment
MEPHISTO_INSTANCE == <<"_", "A">>

DigitChar(d) ==
    CASE d = 0 -> "0" [] d = 1 -> "1" [] d = 2 -> "2" [] d = 3 -> "3"
      [] d = 4 -> "4" [] d = 5 -> "5" [] d = 6 -> "6" [] d = 7 -> "7"
      [] d = 8 -> "8" [] OTHER -> "9"

\* str(unit_id): the decimal digits of a unit identifier
RECURSIVE UnitText(_)
UnitText(u) ==
    IF u < 10 THEN <<DigitChar(u)>>
    ELSE UnitText(u \div 10) \o <<DigitChar(u % 10)>>

\* merge_conversation_agents_db: the agent_unit_id written for a participant
ExternalUnitId(a) ==
    IF IsRemote(a) THEN <<>>
    ELSE IF variant = "new" THEN UnitText(a.unit) \o MEPHISTO_INSTANCE
    ELSE UnitText(a.unit)

\* MultiAgentDialogWorld(opt, agents) with the handshaken bridges in place.
Construct(as) ==
    /\ agents' = as
    /\ acts' = [i \in 1..Len(as) |-> NoAct]
    /\ bridge' = [i \in 1..Len(as) |->
                     IF IsRemote(as[i]) THEN Handshake ELSE NoBridge]
    /\ links' = [i \in 1..Len(as) |-> ExternalUnitId(as[i])]
    /\ pc' = "idle"

WorldUnbuilt ==
    UNCHANGED <<agents, acts, bridge, links>>

SessionUntouched ==
    UNCHANGED <<variant, nLocal, max_turns, min_turns, send_task_data,
                current_turns, episodeDone, idx, agents_said_bye, roundLog,
                tasks, retries, everReplyDone, everAllBye, everEnded, answer,
                probe, matched>>

\* The agents list the new make_world builds from n human agents.
AgentsNew(n) ==
    IF n = 2 THEN <<Local(2), Local(1)>>
    ELSE <<Bot>> \o [i \in 1..n |-> Local(i)]

\* The agents list the old make_world builds from n human agents.
AgentsOld(n) ==
    [i \in 1..Max(n, 2) |-> IF i <= n THEN Local(i) ELSE Bot]

\* line 286 with the upper limit left out
CountRejected_NoUpper(n) == n < 1

\* line 286
CountRejected(n) == n < 1 \/ n > 2

MakeWorldNew ==
    /\ pc = "start"
    /\ variant = "new"
    /\ \/ /\ CountRejected(nLocal)
          /\ pc' = "config_error"
          /\ WorldUnbuilt
       \/ /\ ~CountRejected(nLocal)
          /\ nLocal = 2
          /\ Construct(AgentsNew(nLocal))
       \/ /\ ~CountRejected(nLocal)
          /\ nLocal # 2
          /\ \/ Construct(AgentsNew(nLocal))
             \/ /\ pc' = "exit"          \* ws_start: connection refused
                /\ WorldUnbuilt
    /\ SessionUntouched

MakeWorldOld ==
    /\ pc = "start"
    /\ variant = "old"
    /\ \/ Construct(AgentsOld(nLocal))
       \/ /\ nLocal < 2
          /\ pc' = "exit"                \* ws_start: connection refused
          /\ WorldUnbuilt
    /\ SessionUntouched


(***************************************************************************)
(* MultiAgentDialogWorld.parley                                            *)
(***************************************************************************)
\* What no call on a built world changes: the configuration, the
\* participants, the rows written at construction, and the last answers
\* given to the driver.
Config == <<variant, nLocal, agents, max_turns, min_turns, send_task_data, links,
            answer, probe, matched>>

\* lines 181-183
ParleyEnter ==
    /\ current_turns' = current_turns + 1
    /\ agents_said_bye' = <<>>
    /\ idx' = 1
    /\ roundLog' = <<>>
    /\ pc' = "round"
    /\ UNCHANGED <<Config, episodeDone, acts, bridge, tasks, retries, everReplyDone,
                   everAllBye, everEnded>>

\* A driver that calls parley without asking episode_done().
ParleyBegin_Unguarded ==
    /\ pc = "idle"
    /\ ParleyEnter

\* The driver calls parley while episode_done() is false.
ParleyBegin ==
    /\ pc = "idle"
    /\ ~episodeDone
    /\ ParleyEnter

\* A caller calls parley whatever episode_done() says, also after a parley
\* that raised.
ParleyCall ==
    /\ pc \in {"idle", "raised"}
    /\ current_turns < MaxRounds
    /\ ParleyEnter

\* episode_done(): lines 250-251
EpisodeDoneCall ==
    /\ pc \in {"idle", "raised", "closed", "shutdown_raised"}
    /\ answer' = IF episodeDone THEN "True" ELSE "False"
    /\ UNCHANGED <<variant, nLocal, pc, agents, max_turns, min_turns,
                   send_task_data, current_turns, episodeDone, acts, idx,
                   agents_said_bye, bridge, roundLog, tasks, retries,
                   everReplyDone, everAllBye, everEnded, links, probe, matched>>

\* lines 189-194 with the index left out of the counter
TaskData_NoOrdinal(i) ==
    [last_acting_agent |-> i,
     current_dialogue_turn |-> current_turns,
     utterance_count |-> current_turns]

\* lines 189-195 with the index alone as utterance_count
TaskData_IndexOnly(i) ==
    [last_acting_agent |-> i,
     current_dialogue_turn |-> current_turns,
     utterance_count |-> i - 1]

\* The task_data parley attaches to the reply of the participant at
\* 1-based position i (enumerate index i - 1).
TaskData(i) ==
    [last_acting_agent |-> i,
     current_dialogue_turn |-> current_turns,
     utterance_count |-> current_turns + (i - 1)]

Enrich(a, i) ==
    IF send_task_data THEN [a EXCEPT !.task_data = TaskData(i)] ELSE a

\* Where the guarded block can raise after the bounded act returned.
FailPoints == IF send_task_data THEN {"enrich", "write"} ELSE {"write"}

\* The calls of the try block for participant i, raising at stop
\* ("end": the block completes).
TryLog(i, stop) ==
    <<Ev("act_bounded", i, 0)>>
    \o (IF ~send_task_data THEN <<>>
        ELSE IF stop = "enrich" THEN <<Ev("enrich_raised", i, 0)>>
        ELSE <<Ev("enrich", i, TaskData(i).utterance_count)>>)
    \o (IF stop = "enrich" THEN <<>>
        ELSE IF stop = "write" THEN <<Ev("write_raised", i, 0)>>
        ELSE <<Ev("write", i, 0)>>)

\* The except block without line 199.
FallbackLog_Unwritten(i, written) == <<Ev("act", i, 0)>>

\* The calls of the except block for participant i.
FallbackLog(i, written) ==
    <<Ev("act", i, 0), Ev(IF written THEN "write" ELSE "write_raised", i, 0)>>

\* line 206 with the check of the reply's flag left out
ReplyEndsEpisode_Never(a) == FALSE

\* line 206
ReplyEndsEpisode(a) == a.episode_done

\* lines 206-207 as self.episodeDone = acts[index]["episode_done"]
FlagAfterReply_Assign(done, a) == ReplyEndsEpisode(a)

\* lines 206-207: the flag after parley looked at the reply a
FlagAfterReply(done, a) == done \/ ReplyEndsEpisode(a)

\* lines 208-210 without the test other_agent != agent
RelayEvents_All(i) == [k \in 1..N |-> Ev("observe", k, i)]

\* lines 208-210 moved behind the loop over the participants
RelayEvents_Batched(i) ==
    IF i < N THEN <<>>
    ELSE [k \in 1..(N * (N - 1)) |->
            LET sp == ((k - 1) \div (N - 1)) + 1
                o  == ((k - 1) % (N - 1)) + 1
            IN  Ev("observe", IF o < sp THEN o ELSE o + 1, sp)]

\* lines 208-210: every other participant observes the act, in order
RelayEvents(i) ==
    [k \in 1..(N - 1) |-> Ev("observe", IF k < i THEN k ELSE k + 1, i)]

Relay(br, i, a) ==
    [j \in Ix |-> IF j # i /\ IsRemote(agents[j])
                  THEN BridgeObserve(br[j], a.text) ELSE br[j]]

\* the loop of line 184 left as soon as a reply carries the flag
AfterReplyPc_Break(a, i) ==
    IF i = N \/ a.episode_done THEN "policy" ELSE "round"

\* line 184: the loop goes on to the next participant whatever the reply,
\* and line 212 follows the last one
AfterReplyPc(a, i) == IF i = N THEN "policy" ELSE "round"

\* lines 201-210 for the act a of participant idx, then the next iteration
AfterAct(a, br, log) ==
    /\ acts' = [acts EXCEPT ![idx] = a]
    /\ agents_said_bye' = Append(agents_said_bye, SaidBye(a.text))
    /\ episodeDone' = FlagAfterReply(episodeDone, a)
    /\ bridge' = Relay(br, idx, a)
    /\ roundLog' = roundLog \o log \o RelayEvents(idx)
    /\ idx' = idx + 1
    /\ pc' = AfterReplyPc(a, idx)

\* an exception leaves parley after acts[idx] was assigned a
Propagate(a, br, log) ==
    /\ acts' = [acts EXCEPT ![idx] = a]
    /\ bridge' = br
    /\ roundLog' = roundLog \o log
    /\ pc' = "raised"
    /\ UNCHANGED <<agents_said_bye, episodeDone, idx>>

RoundFrame == UNCHANGED <<Config, current_turns, tasks, everAllBye, everEnded>>

\* lines 185-196 complete for a participant accepting act(timeout=...)
LocalTurnOk ==
    /\ pc = "round"
    /\ ~IsRemote(agents[idx])
    /\ \E r \in LocalReplies :
          /\ everReplyDone' = (everReplyDone \/ r.episode_done)
          /\ AfterAct(Enrich(r, idx), bridge, TryLog(idx, "end"))
    /\ UNCHANGED retries
    /\ RoundFrame

\* lines 187-196 raise TypeError after the bounded act returned: the
\* except block asks the participant to act again (lines 198-199)
LocalTurnRetry ==
    /\ pc = "round"
    /\ ~IsRemote(agents[idx])
    /\ retries < MaxRetries
    /\ retries' = retries + 1
    /\ \E r1 \in LocalReplies, r2 \in LocalReplies, stop \in FailPoints,
          written \in BOOLEAN :
          /\ everReplyDone' = (everReplyDone \/ r1.episode_done \/ r2.episode_done)
          /\ IF written
             THEN AfterAct(r2, bridge, TryLog(idx, stop) \o FallbackLog(idx, TRUE))
             ELSE Propagate(r2, bridge, TryLog(idx, stop) \o FallbackLog(idx, FALSE))
    /\ RoundFrame

\* lines 187-196 raise another exception: it leaves parley
LocalTurnRaise ==
    /\ pc = "round"
    /\ ~IsRemote(agents[idx])
    /\ \E r \in LocalReplies, stop \in FailPoints :
          /\ everReplyDone' = (everReplyDone \/ r.episode_done)
          /\ Propagate(IF stop = "write" THEN Enrich(r, idx) ELSE r, bridge,
                       TryLog(idx, stop))
    /\ UNCHANGED retries
    /\ RoundFrame

\* RemoteAgent.act takes no timeout: TypeError at line 186, then lines 198-199
RemoteTurn ==
    /\ pc = "round"
    /\ IsRemote(agents[idx])
    /\ bridge[idx].connected \/ bridge[idx].observation = "None"
    /\ \E r \in Utterances, written \in BOOLEAN :
          LET b == bridge[idx]
              br == [bridge EXCEPT ![idx] = BridgeAct(b)]
              log == <<Ev("act_rejected", idx, 0)>> \o FallbackLog(idx, written)
          IN  IF written
              THEN AfterAct(BridgeReply(b, r), br, log)
              ELSE Propagate(BridgeReply(b, r), br, log)
    /\ UNCHANGED <<retries, everReplyDone>>
    /\ RoundFrame

\* the socket fails while RemoteAgent.act sends or receives (or was closed
\* before: ws_recv returns None and act raises on it)
RemoteTurnFail ==
    /\ pc = "round"
    /\ IsRemote(agents[idx])
    /\ bridge[idx].observation # "None"
    /\ \E stage \in {"send", "recv"} :
          LET b == bridge[idx]
              b1 == IF stage = "recv" THEN WsSend(b, b.observation) ELSE b
          IN  \E b2 \in AfterError(b1) : bridge' = [bridge EXCEPT ![idx] = b2]
    /\ roundLog' = roundLog \o <<Ev("act_rejected", idx, 0), Ev("act_raised", idx, 0)>>
    /\ pc' = "raised"
    /\ UNCHANGED <<acts, agents_said_bye, episodeDone, idx, retries, everReplyDone>>
    /\ RoundFrame

\* line 212 with "or" read as binding tighter than "and"
TerminationPolicy_OrFirst(t, maxT, minT, saidBye) ==
    (t >= maxT \/ (\A k \in DOMAIN saidBye : saidBye[k])) /\ t >= minT

\* line 212 without the minimum-turn condition
TerminationPolicy_NoMin(t, maxT, minT, saidBye) ==
    t >= maxT \/ (\A k \in DOMAIN saidBye : saidBye[k])

\* line 212 without the goodbye condition
TerminationPolicy_MaxOnly(t, maxT, minT, saidBye) == t >= maxT

\* line 212 with any() in place of all()
TerminationPolicy_AnyBye(t, maxT, minT, saidBye) ==
    t >= maxT \/ ((\E k \in DOMAIN saidBye : saidBye[k]) /\ t >= minT)

\* line 212 with > in place of the first >=
TerminationPolicy_StrictMax(t, maxT, minT, saidBye) ==
    t > maxT \/ ((\A k \in DOMAIN saidBye : saidBye[k]) /\ t >= minT)

\* line 212 (new)
TerminationPolicy(t, maxT, minT, saidBye) ==
    t >= maxT \/ ((\A k \in DOMAIN saidBye : saidBye[k]) /\ t >= minT)

\* line 198 (old)
TerminationPolicyOld(t, maxT) == t >= maxT

ShouldTerminate ==
    IF variant = "new"
    THEN TerminationPolicy(current_turns, max_turns, min_turns, agents_said_bye)
    ELSE TerminationPolicyOld(current_turns, max_turns)

\* lines 216-217 with the text written and no reply read
BroadcastBridge_NoAck(b) == WsSend(BridgeObserve(b, "[DONE]"), "[DONE]")

\* lines 216-217: observe [DONE], then one act whose reply is dropped
BroadcastBridge(b) == BridgeAct(BridgeObserve(b, "[DONE]"))

\* the completion code of line 229 without the deployment tag
CompletionCode_NoTag(a) == UnitText(a.unit)

\* the completion code shown to a human participant: line 229 (new),
\* line 214 (old)
CompletionCode(a) ==
    IF variant = "new" THEN UnitText(a.unit) \o MEPHISTO_INSTANCE
    ELSE UnitText(a.unit)

\* lines 214-232: the calls of the closing broadcast to participants j..last
RECURSIVE BroadcastLog(_, _)
BroadcastLog(j, last) ==
    IF j > last THEN <<>>
    ELSE (IF IsRemote(agents[j])
          THEN <<Ev("done_signal", j, 0), Ev("done_ack", j, 0)>>
          ELSE <<Ev("notice", j, CompletionCode(agents[j]))>>)
         \o BroadcastLog(j + 1, last)

AllSaidBye == \A i \in Ix : SaidBye(acts[i].text)

\* lines 212-232
PolicyStep ==
    /\ pc = "policy"
    /\ \A j \in Ix : IsRemote(agents[j]) => bridge[j].connected
    /\ everAllBye' = (everAllBye \/ AllSaidBye)
    /\ IF ShouldTerminate
       THEN /\ episodeDone' = TRUE
            /\ everEnded' = TRUE
            /\ bridge' = [j \in Ix |-> IF IsRemote(agents[j])
                                       THEN BroadcastBridge(bridge[j]) ELSE bridge[j]]
            /\ roundLog' = roundLog \o BroadcastLog(1, N)
       ELSE UNCHANGED <<episodeDone, everEnded, bridge, roundLog>>
    /\ pc' = "idle"
    /\ UNCHANGED <<Config, current_turns, acts, idx, agents_said_bye, tasks,
                   retries, everReplyDone>>


\* lines 212-217 when the socket of the remote participant f fails during
\* its [DONE] round trip: the exception leaves parley
PolicyFail ==
    /\ pc = "policy"
    /\ ShouldTerminate
    /\ \E f \in Ix, stage \in {"send", "recv"} :
          /\ IsRemote(agents[f])
          /\ \A j \in 1..(f - 1) : IsRemote(agents[j]) => bridge[j].connected
          /\ LET b == BridgeObserve(bridge[f], "[DONE]")
                 b1 == IF stage = "recv" THEN WsSend(b, b.observation) ELSE b
             IN  \E b2 \in AfterError(b1) :
                    bridge' = [j \in Ix |->
                       IF j = f THEN b2
                       ELSE IF j < f /\ IsRemote(agents[j])
                            THEN BroadcastBridge(bridge[j]) ELSE bridge[j]]
          /\ roundLog' = roundLog \o BroadcastLog(1, f - 1)
                            \o <<Ev("done_signal", f, 0), Ev("done_ack_raised", f, 0)>>
    /\ episodeDone' = TRUE
    /\ everEnded' = TRUE
    /\ pc' = "raised"
    /\ UNCHANGED <<Config, current_turns, acts, idx, agents_said_bye, tasks,
                   retries, everReplyDone, everAllBye>>

(***************************************************************************)
(* MultiAgentDialogWorld.shutdown: one shutdown_agent task per participant *)
(* on a thread pool of n_jobs workers.  A task is pending, inside          *)
(* shutdown(timeout=None) ("bounded"), inside the fallback shutdown()      *)
(* ("plain"), finished by the first call ("done"), finished by the         *)
(* fallback ("done_fallback"), or ended by an exception ("raised").        *)
(***************************************************************************)
\* n_jobs=len(self.agents)
PoolSize == N

Running == {i \in Ix : tasks[i] \in {"bounded", "plain"}}

Finished(i) == tasks[i] \in {"done", "done_fallback", "raised"}

ShutdownFrame ==
    UNCHANGED <<Config, current_turns, episodeDone, acts, idx, agents_said_bye,
                bridge, roundLog, retries, everReplyDone, everAllBye, everEnded>>

\* the driver is between two calls and calls shutdown(): lines 258-267
ShutdownBegin ==
    /\ pc = "idle"
    /\ tasks' = [i \in Ix |-> "pending"]
    /\ pc' = "shutdown"
    /\ ShutdownFrame

\* a free worker takes the task of participant i: line 262 is entered
TaskStart(i) ==
    /\ pc = "shutdown"
    /\ tasks[i] = "pending"
    /\ Cardinality(Running) < PoolSize
    /\ tasks' = [tasks EXCEPT ![i] = "bounded"]
    /\ UNCHANGED pc
    /\ ShutdownFrame

\* line 262 returns, or raises and line 264 is entered; Agent.shutdown of
\* a RemoteAgent takes no timeout, so for it the call always raises
TaskBounded(i) ==
    /\ pc \in {"shutdown", "shutdown_raised"}
    /\ tasks[i] = "bounded"
    /\ \/ /\ ~IsRemote(agents[i])
          /\ tasks' = [tasks EXCEPT ![i] = "done"]
       \/ tasks' = [tasks EXCEPT ![i] = "plain"]
    /\ UNCHANGED pc
    /\ ShutdownFrame

\* line 264 returns, or raises out of shutdown_agent; Agent.shutdown of a
\* RemoteAgent does nothing and returns
TaskPlain(i) ==
    /\ pc \in {"shutdown", "shutdown_raised"}
    /\ tasks[i] = "plain"
    /\ \/ tasks' = [tasks EXCEPT ![i] = "done_fallback"]
       \/ /\ ~IsRemote(agents[i])
          /\ tasks' = [tasks EXCEPT ![i] = "raised"]
    /\ UNCHANGED pc
    /\ ShutdownFrame

\* Parallel(...)(...) has collected every task: shutdown() returns
ShutdownReturn ==
    /\ pc = "shutdown"
    /\ \A i \in Ix : tasks[i] \in {"done", "done_fallback"}
    /\ pc' = "closed"
    /\ UNCHANGED tasks
    /\ ShutdownFrame

\* Parallel(...)(...) re-raises the exception of a task in shutdown(),
\* without waiting for the other tasks
ShutdownRaise ==
    /\ pc = "shutdown"
    /\ \E i \in Ix : tasks[i] = "raised"
    /\ pc' = "shutdown_raised"
    /\ UNCHANGED tasks
    /\ ShutdownFrame

\* The conversation: make_world, then parley while episode_done() is false.
Next ==
    \/ MakeWorldNew
    \/ MakeWorldOld
    \/ ParleyBegin
    \/ LocalTurnOk
    \/ LocalTurnRetry
    \/ LocalTurnRaise
    \/ RemoteTurn
    \/ RemoteTurnFail
    \/ PolicyStep
    \/ PolicyFail

Spec == Init /\ [][Next]_vars

\* The teardown of a world: make_world, then shutdown().
NextShutdown ==
    \/ MakeWorldNew
    \/ MakeWorldOld
    \/ ShutdownBegin
    \/ \E i \in Ix : TaskStart(i)
    \/ \E i \in Ix : TaskBounded(i)
    \/ \E i \in Ix : TaskPlain(i)
    \/ ShutdownReturn
    \/ ShutdownRaise

ShutdownSpec == Init /\ [][NextShutdown]_vars

\* A built world under any sequence of parley, episode_done and shutdown
\* calls.
NextAnyCall ==
    \/ MakeWorldNew
    \/ MakeWorldOld
    \/ ParleyCall
    \/ EpisodeDoneCall
    \/ LocalTurnOk
    \/ LocalTurnRetry
    \/ LocalTurnRaise
    \/ RemoteTurn
    \/ RemoteTurnFail
    \/ PolicyStep
    \/ PolicyFail
    \/ ShutdownBegin
    \/ \E i \in Ix : TaskStart(i)
    \/ \E i \in Ix : TaskBounded(i)
    \/ \E i \in Ix : TaskPlain(i)
    \/ ShutdownReturn
    \/ ShutdownRaise

\* make_world is given one or two human agents, the counts the task is
\* deployed with (get_world_params), under a configuration with which a
\* flagged reply, the turn limit and a round of goodbyes can each end the
\* episode in round 1 or 2.
InitAnyCall ==
    /\ Init
    /\ nLocal \in 1..2
    /\ max_turns \in 1..2
    /\ min_turns \in 0..1
    /\ ~send_task_data

AnyCallSpec == InitAnyCall /\ [][NextAnyCall]_vars

(***************************************************************************)
(* The goodbye pattern on its own: a text is drawn, re.match is applied.   *)
(***************************************************************************)
ByeAlphabet == {"b", "y", "e", "B", " ", "!", ".", "?"}

ByeExamples ==
    {"bye", "Bye!", "bye.", "  BYE  ", " Bye! ", "goodbye for now", "bye bye", "hi"}

ByeTexts ==
    UNION {[1..n -> ByeAlphabet] : n \in 0..MaxTextLen}
        \cup {Chars(t) : t \in ByeExamples}

ByeInit ==
    /\ probe \in ByeTexts
    /\ matched = "none"
    /\ variant = "new"
    /\ nLocal = 1
    /\ max_turns = 1
    /\ min_turns = 0
    /\ send_task_data = FALSE
    /\ pc = "start"
    /\ agents = <<>>
    /\ current_turns = 0
    /\ episodeDone = FALSE
    /\ acts = <<>>
    /\ idx = 0
    /\ agents_said_bye = <<>>
    /\ bridge = <<>>
    /\ roundLog = <<>>
    /\ tasks = <<>>
    /\ retries = 0
    /\ everReplyDone = FALSE
    /\ everAllBye = FALSE
    /\ everEnded = FALSE
    /\ links = <<>>
    /\ answer = "none"

\* lines 203-204: re.match(pattern, text), read as a truth value by all()
ApplyMatch ==
    /\ matched = "none"
    /\ matched' = IF MatchBye(probe) THEN "match" ELSE "no_match"
    /\ UNCHANGED <<variant, nLocal, pc, agents, max_turns, min_turns,
                   send_task_data, current_turns, episodeDone, acts, idx,
                   agents_said_bye, bridge, roundLog, tasks, retries,
                   everReplyDone, everAllBye, everEnded, links, answer, probe>>

NextBye == ApplyMatch

ByeSpec == ByeInit /\ [][NextBye]_vars


(***************************************************************************)
(* Properties.                                                             *)
(***************************************************************************)
\* parley has returned to the driver at least once
ParleyReturned == pc = "idle" /\ current_turns > 0

\* the last parley took the branch of line 212 and sent its closing messages
PolicyEnded ==
    \E k \in DOMAIN roundLog : roundLog[k].e \in {"notice", "done_signal"}

WorldBuilt == pc \notin {"start", "config_error", "exit"}

\* the number of Turn Records parley's loop obtained from participant i
ActCount(i) ==
    Cardinality({k \in DOMAIN roundLog :
                    roundLog[k].e \in {"act_bounded", "act"} /\ roundLog[k].a = i})

\* the current parley made the call e for participant a with detail b
Logged(e, a, b) ==
    \E k \in DOMAIN roundLog :
        roundLog[k].e = e /\ roundLog[k].a = a /\ roundLog[k].b = b

Notified(j) == Logged("notice", j, CompletionCode(agents[j]))

\* C1: in the new variant, after a round with turn count t the closing
\* branch of parley has run if and only if t >= max_turns, or t >= min_turns
\* and the utterance of every participant in that round matches the goodbye
\* pattern; so for t >= max_turns it runs whatever the utterances are.
C1_TerminationIff ==
    (variant = "new" /\ ParleyReturned) =>
        (PolicyEnded <=>
            (current_turns >= max_turns
                \/ (current_turns >= min_turns /\ AllSaidBye)))

C1_Witness ==
    /\ variant = "new"
    /\ ParleyReturned
    /\ PolicyEnded
    /\ current_turns >= max_turns
    /\ current_turns < min_turns
    /\ ~AllSaidBye

\* C2 as claimed: in the new variant, for every configuration, a round whose
\* turn count is below min_turns never runs the closing branch.
C2_BelowMinNeverEnds ==
    (variant = "new" /\ ParleyReturned /\ current_turns < min_turns) => ~PolicyEnded

\* C2 as amended: in the new variant a round whose turn count is below both
\* min_turns and max_turns does not run the closing branch, even when the
\* utterance of every participant matches the goodbye pattern.
C2_BelowMinAndMax ==
    (variant = "new" /\ ParleyReturned
        /\ current_turns < min_turns /\ current_turns < max_turns) => ~PolicyEnded

C2_Witness ==
    /\ variant = "new"
    /\ ParleyReturned
    /\ current_turns < min_turns
    /\ current_turns < max_turns
    /\ AllSaidBye
    /\ ~PolicyEnded
    /\ ~episodeDone

\* C3: in the new variant, when no reply carried the episode-done flag, a
\* round r with min_turns <= r < max_turns in which the utterance of every
\* participant matches the goodbye pattern ends with the closing branch run
\* and episode-done set, and no participant is asked to act once the episode
\* is done.
C3_GoodbyeEnds ==
    (variant = "new" /\ ~everReplyDone) =>
        /\ (ParleyReturned /\ min_turns <= current_turns
                /\ current_turns < max_turns /\ AllSaidBye)
              => (episodeDone /\ PolicyEnded)
        /\ pc \in {"round", "policy"} => ~episodeDone

C3_Witness ==
    /\ variant = "new"
    /\ ~everReplyDone
    /\ ParleyReturned
    /\ min_turns <= current_turns
    /\ current_turns < max_turns
    /\ AllSaidBye
    /\ episodeDone

\* C4 as claimed: in the new variant, when no reply carried the episode-done
\* flag and every round had an utterance that does not match the goodbye
\* pattern, episode-done is set exactly at the end of round max_turns.
C4_ExactlyMaxTurns ==
    (variant = "new" /\ ~everReplyDone /\ ~everAllBye) =>
        /\ ParleyReturned => (episodeDone <=> current_turns = max_turns)
        /\ pc \in {"round", "policy"} => ~episodeDone

\* C4 as amended: under the same conditions episode-done is set exactly at
\* the end of round max(1, max_turns), and no round runs beyond it.
C4_MaxTurnsOnly ==
    (variant = "new" /\ ~everReplyDone /\ ~everAllBye) =>
        /\ ParleyReturned => (episodeDone <=> current_turns = Max(1, max_turns))
        /\ pc \in {"round", "policy"} =>
              (~episodeDone /\ current_turns <= Max(1, max_turns))

C4_Witness ==
    /\ variant = "new"
    /\ ~everReplyDone
    /\ ~everAllBye
    /\ ParleyReturned
    /\ episodeDone
    /\ current_turns = max_turns
    /\ current_turns > 1
    /\ min_turns <= 1
    /\ \E i \in Ix : SaidBye(acts[i].text)

\* C5: in the new variant, whenever parley returns with episode-done set,
\* every human participant has been sent the completion notice with its
\* completion code.
C5_DoneImpliesNotified ==
    (variant = "new" /\ ParleyReturned /\ episodeDone) =>
        \A j \in Ix : ~IsRemote(agents[j]) => Notified(j)

\* C6: a reply whose episode-done flag is set marks the session done as soon
\* as parley has looked at it, whatever the turn count and the utterances.
C6_ReplyFlagEnds ==
    pc \in {"round", "policy", "idle"} =>
        \A i \in Ix : acts[i].episode_done => episodeDone

C6_Witness ==
    /\ variant = "new"
    /\ pc = "round"
    /\ idx = 2
    /\ acts[1].episode_done
    /\ episodeDone
    /\ current_turns < min_turns
    /\ current_turns < max_turns
    /\ ~SaidBye(acts[1].text)

\* C7: shutdown() never passes on the failure of a participant's shutdown,
\* and it returns only with every task finished.
C7_FailureIsolated ==
    /\ pc # "shutdown_raised"
    /\ pc = "closed" => \A i \in Ix : Finished(i)

\* C8: while shutdown() runs a worker is free for every task not yet
\* started, a participant that rejects shutdown(timeout=None) finishes
\* through the plain shutdown(), and shutdown() is left only after every
\* task has been started and has finished.
C8_FanOutFanIn ==
    /\ pc = "shutdown" =>
          \A i \in Ix : tasks[i] = "pending" => Cardinality(Running) < PoolSize
    /\ pc \in {"shutdown", "shutdown_raised", "closed"} =>
          \A i \in Ix : (IsRemote(agents[i]) /\ Finished(i)) => tasks[i] = "done_fallback"
    /\ pc \in {"shutdown_raised", "closed"} => \A i \in Ix : Finished(i)

C10_OneActPerRound ==
    pc \in {"round", "policy", "idle"} =>
        \A i \in Ix :
            /\ ActCount(i) <= 1
            /\ (current_turns > 0 /\ (pc = "round" => i < idx)) => ActCount(i) = 1

\* the participants that observed the utterance of participant i in the
\* current parley, in the order of the observe calls
RelaysOf(i) ==
    LET s == SelectSeq(roundLog, LAMBDA ev : ev.e = "observe" /\ ev.b = i)
    IN  [k \in DOMAIN s |-> s[k].a]

\* the participants other than i, in participant order
OthersInOrder(i) == [k \in 1..(N - 1) |-> IF k < i THEN k ELSE k + 1]

\* the turn of participant i in the current round is over
TurnOver(i) ==
    /\ current_turns > 0
    /\ pc \in {"round", "policy", "idle"}
    /\ pc = "round" => i < idx

\* the position in roundLog of the first call e made for participant i
\* (0: none)
RECURSIVE FirstAt(_, _, _)
FirstAt(e, i, k) ==
    IF k > Len(roundLog) THEN 0
    ELSE IF roundLog[k].e \in e /\ roundLog[k].a = i THEN k
    ELSE FirstAt(e, i, k + 1)

\* C11: no participant is ever handed its own utterance, and once the turn
\* of participant i in a round of N participants is over, its utterance has
\* been handed to the N-1 other participants, once each, in participant
\* order; a remote participant among them then holds it as its pending
\* observation until another utterance replaces it.
C11_RelayToOthers ==
    /\ \A k \in DOMAIN roundLog :
          roundLog[k].e = "observe" => roundLog[k].a # roundLog[k].b
    /\ \A i \in Ix : TurnOver(i) => RelaysOf(i) = OthersInOrder(i)
    /\ (pc \in {"round", "policy"} /\ idx > 1) =>
          \A j \in Ix : (IsRemote(agents[j]) /\ j # idx - 1) =>
              bridge[j].observation = acts[idx - 1].text

C11_Witness ==
    /\ N = 3
    /\ pc = "policy"
    /\ RelaysOf(1) = <<2, 3>>
    /\ RelaysOf(2) = <<1, 3>>
    /\ RelaysOf(3) = <<1, 2>>

\* the calls by which parley asks a participant for its Turn Record
AskCalls == {"act_bounded", "act_rejected"}

\* the participant whose turn a call of parley's loop belongs to; N + 1 for
\* the calls of the closing branch
TurnOf(ev) ==
    IF ev.e = "observe" THEN ev.b
    ELSE IF ev.e \in {"done_signal", "done_ack", "done_ack_raised", "notice"}
    THEN N + 1
    ELSE ev.a

\* C12: the calls of a parley run turn by turn in participant order,
\* starting with participant 1.  Within a turn the participant is asked
\* once through the bounded call, and its utterance is handed on only after
\* its act has returned; the next participant is asked only when the
\* utterance has been handed to every other participant, in participant
\* order, so no act is requested while another turn is unfinished.
C12_SequentialTurns ==
    /\ roundLog # <<>> => (roundLog[1].e \in AskCalls /\ roundLog[1].a = 1)
    /\ \A k \in 1..(Len(roundLog) - 1) :
          LET x == roundLog[k]
              y == roundLog[k + 1]
              tx == TurnOf(x)
              ty == TurnOf(y)
          IN  /\ tx <= ty
              /\ (tx = ty /\ x.e = "observe") => y.e = "observe"
              /\ y.e \in AskCalls => tx < ty
              /\ tx < ty =>
                    /\ ty = tx + 1
                    /\ ty <= N => y.e \in AskCalls
                    /\ x.e = "observe"
                    /\ RelaysOf(tx) = OthersInOrder(tx)

C12_Witness ==
    /\ N = 3
    /\ pc = "round"
    /\ idx = 3
    /\ FirstAt({"act_bounded", "act_rejected"}, 2, 1) > 0
    /\ FirstAt({"act_bounded", "act_rejected"}, 3, 1) = 0
    /\ RelaysOf(1) = <<2, 3>>
    /\ RelaysOf(2) = <<1, 3>>

\* the call at position k of roundLog is call e for participant i
CallAt(k, e, i) ==
    k \in DOMAIN roundLog /\ roundLog[k].e = e /\ roundLog[k].a = i

\* the number of calls e the current parley made for participant i
Calls(e, i) ==
    Cardinality({k \in DOMAIN roundLog : roundLog[k].e = e /\ roundLog[k].a = i})

\* C13: a human participant is asked with act(timeout=...) and never sees
\* the call rejected.  A remote participant rejects that call without
\* giving a reply; once its turn is over it has then been asked exactly
\* once with act(), the reply to that call is in the last-acts buffer, was
\* written as an utterance and was handed to the other participants.  The
\* rejection alone never ends parley with an exception.
C13_CapabilityFallback ==
    /\ \A i \in Ix : ~IsRemote(agents[i]) => Calls("act_rejected", i) = 0
    /\ \A i \in Ix : IsRemote(agents[i]) => Calls("act_bounded", i) = 0
    /\ \A i \in Ix : (IsRemote(agents[i]) /\ TurnOver(i)) =>
          LET p == FirstAt({"act_rejected"}, i, 1)
          IN  /\ p > 0
              /\ Calls("act_rejected", i) = 1
              /\ Calls("act", i) = 1
              /\ CallAt(p + 1, "act", i)
              /\ CallAt(p + 2, "write", i)
              /\ RelaysOf(i) = OthersInOrder(i)
              /\ acts[i].text \in Utterances \cup {Placeholder}
              /\ acts[i].task_data = NoData
    /\ pc = "raised" => roundLog[Len(roundLog)].e # "act_rejected"

C13_Witness ==
    /\ variant = "new"
    /\ pc = "round"
    /\ idx = 2
    /\ IsRemote(agents[1])
    /\ CallAt(1, "act_rejected", 1)
    /\ CallAt(2, "act", 1)
    /\ CallAt(3, "write", 1)
    /\ Logged("observe", 2, 1)
    /\ acts[1].text = "hi"

\* the number of times text was written to the socket of bridge b
TimesSent(b, text) ==
    Cardinality({k \in DOMAIN b.sent : b.sent[k] = text})

\* C14: when parley has returned through its closing branch, every remote
\* participant was sent "[DONE]" exactly once, as the last text on its
\* socket, and one reply was read for it; that reply is not in the last-acts
\* buffer, and after the first closing call parley made no utterance write
\* and handed no Turn Record to any participant.
C14_DoneSignal ==
    (pc = "idle" /\ PolicyEnded) =>
        /\ \A j \in Ix : IsRemote(agents[j]) =>
              LET p == FirstAt({"done_signal"}, j, 1)
                  b == bridge[j]
              IN  /\ p > 0
                  /\ Calls("done_signal", j) = 1
                  /\ Calls("done_ack", j) = 1
                  /\ CallAt(p + 1, "done_ack", j)
                  /\ TimesSent(b, "[DONE]") = 1
                  /\ b.sent[Len(b.sent)] = "[DONE]"
                  /\ b.recv = Len(b.sent)
                  /\ acts[j].replyTo # "[DONE]"
        /\ \A k \in 1..(Len(roundLog) - 1) :
              roundLog[k].e \in {"done_signal", "done_ack", "notice"} =>
                  roundLog[k + 1].e \in {"done_signal", "done_ack", "notice"}

C14_Witness ==
    /\ pc = "idle"
    /\ PolicyEnded
    /\ current_turns = 2
    /\ IsRemote(agents[1])
    /\ IsRemote(agents[2])
    /\ TimesSent(bridge[1], "[DONE]") = 1
    /\ bridge[2].recv = Len(bridge[2].sent)
    /\ Calls("done_ack", 2) = 1

\* C15: when parley is left because the socket of a remote participant
\* failed during its act, the act was not repeated and episode-done is set.
C15_TransportFailureEnds ==
    (pc = "raised" /\ roundLog[Len(roundLog)].e = "act_raised") =>
        /\ Calls("act_raised", roundLog[Len(roundLog)].a) = 1
        /\ Calls("act", roundLog[Len(roundLog)].a) = 0
        /\ episodeDone

\* C16: the new make_world given fewer than 1 or more than 2 human agents
\* raises with nothing done: no bridge is connected, no world and no
\* last-acts buffer exist, no row is written and no participant is called.
C16_ConfigFailFast ==
    (variant = "new" /\ (nLocal < 1 \/ nLocal > 2)) =>
        /\ pc \in {"start", "config_error"}
        /\ agents = <<>>
        /\ bridge = <<>>
        /\ acts = <<>>
        /\ links = <<>>
        /\ roundLog = <<>>
        /\ current_turns = 0

C16_Witness ==
    /\ variant = "new"
    /\ nLocal > 2
    /\ pc = "config_error"
    /\ bridge = <<>>

\* s is a characters of white space, the word bye in any letter case, p
\* characters of the class punct and then white space only
IsByeWord(s, punct) ==
    \E a \in 0..Len(s), p \in 0..Len(s) :
        /\ a + 3 + p <= Len(s)
        /\ \A k \in 1..a : s[k] \in Whitespace
        /\ FoldCase(s[a + 1]) = "b"
        /\ FoldCase(s[a + 2]) = "y"
        /\ FoldCase(s[a + 3]) = "e"
        /\ \A k \in (a + 4)..(a + 3 + p) : s[k] \in punct
        /\ \A k \in (a + 4 + p)..Len(s) : s[k] \in Whitespace

Punctuation == {".", "!", "?", ",", ";", ":"}

\* C17 as claimed: the pattern matches a text exactly when it is the word
\* bye in any letter case, optionally followed by punctuation marks of any
\* kind, with optional white space around, and nothing else.
C17_ByeAnyPunctuation ==
    matched # "none" => (matched = "match" <=> IsByeWord(probe, Punctuation))

\* C17 as amended: the pattern matches a text exactly when it is the word
\* bye in any letter case, optionally followed by full stops and
\* exclamation marks, with optional white space around, and nothing else;
\* "bye", "Bye!", "bye." and "  BYE  " match, "goodbye for now" and
\* "bye bye" do not.
C17_GoodbyePredicate ==
    matched # "none" =>
        /\ matched = "match" <=> IsByeWord(probe, {".", "!"})
        /\ probe \in {Chars("bye"), Chars("Bye!"), Chars("bye."), Chars("  BYE  ")}
              => matched = "match"
        /\ probe \in {Chars("goodbye for now"), Chars("bye bye")}
              => matched = "no_match"

C17_Witness ==
    /\ probe = Chars("  BYE  ")
    /\ matched = "match"

\* C18: the utterance counter parley puts into the reply of the participant
\* at position i of the list (counted from 0) in round r is r + i, and of
\* two enriched replies of one round the later participant's is greater.
C18_UtteranceCounter ==
    /\ \A k \in DOMAIN roundLog :
          roundLog[k].e = "enrich" =>
              roundLog[k].b = current_turns + (roundLog[k].a - 1)
    /\ \A i \in Ix : (TurnOver(i) /\ acts[i].task_data # NoData) =>
          /\ acts[i].task_data.utterance_count = current_turns + (i - 1)
          /\ \A j \in Ix : (i < j /\ TurnOver(j) /\ acts[j].task_data # NoData) =>
                acts[i].task_data.utterance_count < acts[j].task_data.utterance_count

C18_Witness ==
    /\ send_task_data
    /\ N = 3
    /\ pc = "policy"
    /\ current_turns = 2
    /\ acts[1].task_data.utterance_count = 2
    /\ acts[2].task_data.utterance_count = 3
    /\ acts[3].task_data.utterance_count = 4

\* C19: no step of parley, episode_done or shutdown clears the episode-done
\* flag once it is set, and every call of episode_done() made while it is
\* set returns true.
C19_DoneNeverCleared ==
    [][episodeDone =>
          /\ episodeDone'
          /\ answer' # answer => answer' = "True"]_vars

C19_Witness ==
    /\ episodeDone
    /\ answer = "True"
    /\ pc = "round"
    /\ idx = 2
    /\ current_turns > max_turns
    /\ ~acts[1].episode_done

\* C20: in the new variant the code of every completion notice is the unit
\* identifier of the participant it is sent to followed by the deployment
\* tag, and it equals the agent_unit_id written for that participant in the
\* conversation_agent row when the world was built.
C20_CompletionCode ==
    variant = "new" =>
        \A k \in DOMAIN roundLog : roundLog[k].e = "notice" =>
            /\ ~IsRemote(agents[roundLog[k].a])
            /\ roundLog[k].b = UnitText(agents[roundLog[k].a].unit) \o MEPHISTO_INSTANCE
            /\ roundLog[k].b = links[roundLog[k].a]

C20_Witness ==
    /\ variant = "new"
    /\ pc = "idle"
    /\ N = 2
    /\ links = <<<<"2", "_", "A">>, <<"1", "_", "A">>>>
    /\ Logged("notice", 1, <<"2", "_", "A">>)
    /\ Logged("notice", 2, <<"1", "_", "A">>)

(***************************************************************************)
(* The bridge: pairing of requests and responses, and what reaches the     *)
(* socket.                                                                 *)
(***************************************************************************)
\* the number of acts with a pending observation the bridge has made when
\* its act of round current_turns has returned: those of make_world and one
\* per round
BridgeActsMade == (IF variant = "new" THEN 1 ELSE 2) + current_turns

\* C21: on a bridge whose socket never failed, every act made with a
\* pending observation writes one message and then reads one, so the number
\* of messages read equals the number written; the reply of the k-th such
\* act is the k-th message read and answers the k-th message written; in the
\* old variant, after the two sentinel pairs of make_world, the first reply
\* of the conversation is the third message read.
C21_RequestResponse ==
    WorldBuilt =>
        \A j \in Ix : (IsRemote(agents[j]) /\ ~bridge[j].failed) =>
            /\ bridge[j].recv = Len(bridge[j].sent)
            /\ (pc \in {"round", "policy"} /\ j < idx) =>
                  /\ acts[j].seq = BridgeActsMade
                  /\ acts[j].seq = bridge[j].recv
                  /\ acts[j].replyTo = bridge[j].sent[acts[j].seq]

C21_Witness ==
    /\ variant = "old"
    /\ pc = "policy"
    /\ N = 2
    /\ IsRemote(agents[2])
    /\ current_turns = 1
    /\ bridge[2].sent = <<"dummy", "begin", "hi">>
    /\ bridge[2].recv = 3
    /\ acts[2].seq = 3
    /\ acts[2].replyTo = "hi"

\* s without its last element
Front(s) == SubSeq(s, 1, Len(s) - 1)

\* the elements of a occur in b in the same order
RECURSIVE IsSubSeq(_, _)
IsSubSeq(a, b) ==
    IF a = <<>> THEN TRUE
    ELSE IF b = <<>> THEN FALSE
    ELSE IF Head(a) = Head(b) THEN IsSubSeq(Tail(a), Tail(b))
    ELSE IsSubSeq(a, Tail(b))

\* C22: on a bridge whose socket is open and never failed, every text
\* handed to observe has been written to the socket, in the order of the
\* observe calls; only the last one may still wait for the next act.
C22_ObservedIsSent ==
    WorldBuilt =>
        \A j \in Ix :
            (IsRemote(agents[j]) /\ bridge[j].connected /\ ~bridge[j].failed) =>
                IsSubSeq(Front(bridge[j].observed), bridge[j].sent)

\* C23: no step writes to or reads from a socket that is not open, and once
\* a send or a receive on a socket has raised, no later step of the session
\* writes to it or reads from it.
C23_ClosedNeverReused ==
    [][WorldBuilt =>
          \A j \in Ix :
              (IsRemote(agents[j]) /\ (bridge[j].failed \/ ~bridge[j].connected)) =>
                  /\ bridge'[j].sent = bridge[j].sent
                  /\ bridge'[j].recv = bridge[j].recv]_vars

(***************************************************************************)
(* Persistence and bookkeeping of the replies of a round.                  *)
(***************************************************************************)
\* the calls of parley that returned a Turn Record
RecordCalls == {"act_bounded", "act"}

\* position k of the log is an act that returned a Turn Record, and the
\* record-utterance write for it follows at once, after the bookkeeping at
\* most, and so before any relay and any other act
WrittenAtOnce(k) ==
    \E w \in {k + 1, k + 2} :
        /\ w <= Len(roundLog)
        /\ roundLog[w].e = "write"
        /\ roundLog[w].a = roundLog[k].a
        /\ w = k + 2 => roundLog[k + 1].e = "enrich"

\* C24: as long as parley has not raised, every Turn Record an act of the
\* round returned is followed by its own record-utterance write before any
\* relay and before the next act, there are as many writes as Turn Records,
\* and no write follows the closing messages.
C24_OneWritePerRecord ==
    (WorldBuilt /\ pc # "raised") =>
        /\ \A k \in DOMAIN roundLog :
              roundLog[k].e \in RecordCalls => WrittenAtOnce(k)
        /\ Cardinality({k \in DOMAIN roundLog : roundLog[k].e = "write"})
              = Cardinality({k \in DOMAIN roundLog : roundLog[k].e \in RecordCalls})
        /\ \A k \in DOMAIN roundLog :
              roundLog[k].e \in {"done_signal", "done_ack", "notice"} =>
                  \A w \in k..Len(roundLog) : roundLog[w].e # "write"

\* the same when the except block never ran after a completed act
C24_WithoutRetry == retries = 0 => C24_OneWritePerRecord

\* the reply of participant i in the last-acts buffer carries the bookkeeping
Enriched(i) == acts[i].task_data # NoData

\* the enriched reply of participant i was produced after that of j
ProducedAfter(i, j) ==
    \/ acts[i].task_data.current_dialogue_turn > acts[j].task_data.current_dialogue_turn
    \/ /\ acts[i].task_data.current_dialogue_turn
            = acts[j].task_data.current_dialogue_turn
       /\ i > j

\* C25 as claimed: of two enriched replies of the session, the one produced
\* later carries the greater utterance counter.
C25_SessionMonotonic ==
    \A i \in Ix, j \in Ix :
        (Enriched(i) /\ Enriched(j) /\ ProducedAfter(i, j)) =>
            acts[i].task_data.utterance_count > acts[j].task_data.utterance_count

\* C25 as amended: the utterance counter of an enriched reply is the round
\* number it carries plus the 0-based position of its speaker; of two
\* enriched replies of the same round the later one carries the greater
\* counter, and two enriched replies never agree on both the round number
\* and the counter.
C25_RoundScopedCounter ==
    \A i \in Ix : Enriched(i) =>
        /\ acts[i].task_data.utterance_count
              = acts[i].task_data.current_dialogue_turn + (i - 1)
        /\ \A j \in Ix : (Enriched(j) /\ i < j) =>
              /\ acts[i].task_data.current_dialogue_turn
                    = acts[j].task_data.current_dialogue_turn
                  => acts[i].task_data.utterance_count
                        < acts[j].task_data.utterance_count
              /\ <<acts[i].task_data.current_dialogue_turn,
                   acts[i].task_data.utterance_count>>
                    # <<acts[j].task_data.current_dialogue_turn,
                        acts[j].task_data.utterance_count>>

\* the first speaker of round 2 carries the counter the second speaker of
\* round 1 carried
C25_Witness ==
    /\ pc = "round"
    /\ idx = 2
    /\ current_turns = 2
    /\ Enriched(1)
    /\ Enriched(2)
    /\ acts[1].task_data.current_dialogue_turn = 2
    /\ acts[2].task_data.current_dialogue_turn = 1
    /\ acts[1].task_data.utterance_count = 2
    /\ acts[2].task_data.utterance_count = 2

\* C26: when send_task_data is enabled, every reply relayed in the round
\* carries the bookkeeping of its speaker and round.
C26_EveryRelayEnriched ==
    (WorldBuilt /\ send_task_data /\ pc \in {"round", "policy"}) =>
        \A i \in Ix : i < idx => acts[i].task_data = TaskData(i)

(***************************************************************************)
(* The session as a whole.  The driver is a loop that calls parley until   *)
(* episode_done() returns true, and every call it makes returns or raises: *)
(* a step that can be taken is taken.                                      *)
(***************************************************************************)
LiveSpec == Init /\ [][Next]_vars /\ WF_vars(Next)

\* make_world refused the configuration, or a call of parley raised
Aborted == pc \in {"config_error", "exit", "raised"}

\* C27: the turn count starts at zero, grows by exactly one when a parley
\* starts its round and at no other step, never exceeds max(1, max_turns),
\* and unless make_world refuses or a parley raises the session eventually
\* is episode-done.
C27_BoundedSession ==
    /\ [](/\ pc = "start" => current_turns = 0
          /\ current_turns <= Max(1, max_turns))
    /\ [][IF pc = "idle" /\ pc' = "round"
          THEN current_turns' = current_turns + 1
          ELSE current_turns' = current_turns]_vars
    /\ <>(episodeDone \/ Aborted)

C27_Witness ==
    /\ ParleyReturned
    /\ episodeDone
    /\ ~everReplyDone
    /\ max_turns = 2
    /\ current_turns = 2
    /\ min_turns = 2

ClosingCalls == {"done_signal", "done_ack", "notice"}

\* C28: with the driver that asks episode_done() before every parley, the
\* closing branch runs at most once in a session: each human participant is
\* sent at most one completion notice and each remote participant at most
\* one "[DONE]"; the closing calls are made only after every participant
\* has been asked to act in that round, never while a round is in progress;
\* and once they are made no round is started and no participant is asked
\* to act.
C28_BroadcastOnce ==
    WorldBuilt =>
        /\ \A j \in Ix :
              /\ Calls("notice", j) <= 1
              /\ Calls("done_signal", j) <= 1
              /\ IsRemote(agents[j]) => TimesSent(bridge[j], "[DONE]") <= 1
        /\ pc \in {"round", "policy"} => (~everEnded /\ ~PolicyEnded)
        /\ everEnded => (episodeDone /\ pc \in {"idle", "raised"})
        /\ PolicyEnded =>
              /\ everEnded
              /\ \A i \in Ix : \E k \in DOMAIN roundLog :
                    roundLog[k].e \in AskCalls /\ roundLog[k].a = i
        /\ \A k \in 1..(Len(roundLog) - 1) :
              roundLog[k].e \in ClosingCalls =>
                  roundLog[k + 1].e \notin (AskCalls \cup {"act"})

C28_Witness ==
    /\ variant = "new"
    /\ pc = "idle"
    /\ everEnded
    /\ current_turns = 2
    /\ N = 2
    /\ IsRemote(agents[1])
    /\ TimesSent(bridge[1], "[DONE]") = 1
    /\ Calls("done_signal", 1) = 1
    /\ Calls("notice", 2) = 1
    /\ Notified(2)

\* a reply of the current round carries the episode-done flag
FlaggedReply == \E i \in Ix : acts[i].episode_done

\* the condition of line 212 (new) or line 198 (old) on the finished round
PolicyHolds ==
    IF variant = "new"
    THEN current_turns >= max_turns \/ (current_turns >= min_turns /\ AllSaidBye)
    ELSE current_turns >= max_turns

\* C29: a reply that carries the episode-done flag does not cut its round
\* short: while the round is in progress the next participant is still to
\* act; when the loop is over every participant has been asked to act once,
\* had one utterance write completed and its reply relayed to every other
\* participant in order; and the closing branch has run exactly when the
\* condition of the Termination Policy holds for that round.
C29_FlagKeepsRound ==
    (WorldBuilt /\ current_turns > 0 /\ FlaggedReply) =>
        /\ pc = "round" => idx \in Ix
        /\ pc \in {"policy", "idle"} =>
              \A j \in Ix :
                  /\ Calls("act_bounded", j) + Calls("act_rejected", j) = 1
                  /\ Calls("write", j) = 1
                  /\ RelaysOf(j) = OthersInOrder(j)
        /\ pc = "idle" => (PolicyEnded <=> PolicyHolds)

C29_Witness ==
    /\ pc = "idle"
    /\ N = 3
    /\ acts[1].episode_done
    /\ PolicyEnded
    /\ RelaysOf(1) = <<2, 3>>
    /\ Calls("write", 2) = 1
    /\ Calls("write", 3) = 1
    /\ RelaysOf(3) = <<1, 2>>

(***************************************************************************)
(* shutdown: which call each participant receives.                         *)
(***************************************************************************)
\* C30: the shutdown task of a human participant, which accepts
\* shutdown(timeout=None), never calls the no-argument shutdown() on it.
C30_PlainOnlyIfUnsupported ==
    WorldBuilt =>
        \A i \in DOMAIN tasks :
            ~IsRemote(agents[i]) => tasks[i] \notin {"plain", "done_fallback", "raised"}
====
